---- MODULE Spec2Model ----
(***************************************************************************)
(* Hotel price history: the observation store (scripts/db.py) and the      *)
(* report engine (scripts/generate_report.py).                             *)
(*                                                                         *)
(* Conventions of the model                                                *)
(*  - A missing number (Python None, SQL NULL) is None, the empty tuple;   *)
(*    a missing run id is NoRun, an unset date bound is NoDate, and the    *)
(*    classifier's None is the severity "none".                            *)
(*  - A stay date is a day number; ISO dates 'YYYY-MM-DD' compare as      *)
(*    strings exactly as their day numbers compare as integers.            *)
(*  - A run timestamp is an integer (the value of datetime(run_timestamp)).*)
(*  - A hotel name is an integer, ordered as the names are ordered.        *)
(*  - Prices, averages and relative changes are exact rationals <<n, d>>   *)
(*    in lowest terms with d > 0 (Python computes them in binary floating  *)
(*    point; rounding error is not modelled).                              *)
(*  - A threshold is a rational as well; 0.10 is <<1, 10>>.                *)
(***************************************************************************)
EXTENDS Integers, Sequences, FiniteSets, TLC

VARIABLES runs, nextRunId, hotels, prices, cfg, report, cls,
          price_rows, nextPriceId, run_dates, csv_file, export_file, batch

vars == <<runs, nextRunId, hotels, prices, cfg, report, cls,
          price_rows, nextPriceId, run_dates, csv_file, export_file, batch>>

\* the CSV files and the fetch batch: what the store operations, the
\* report and the classifier leave alone
ioVars == <<csv_file, export_file, batch>>

None == <<>>

NoRun == 0

NoDate == 0

SevNone == "none"

(***************************************************************************)
(* Bounds of the model.                                                    *)
(***************************************************************************)
MaxRuns == 4
MaxTs == 2
MaxLookbackRuns == 2
MaxOffset == 2
NumDates == 3
MaxLookbackDays == 2
MaxDeltaRuns == 3
MaxPriceRows == 2
MaxCsvRows == 2
MaxFetchDates == 2

(***************************************************************************)
(* Exact rational arithmetic.                                              *)
(***************************************************************************)
Abs(x) == IF x < 0 THEN -x ELSE x

Max(a, b) == IF a >= b THEN a ELSE b

Min(a, b) == IF a <= b THEN a ELSE b

RECURSIVE GCD(_, _)
GCD(a, b) == IF b = 0 THEN a ELSE GCD(b, a % b)

Rat(n, d) ==
    LET s == IF d < 0 THEN -1 ELSE 1
        g == GCD(Abs(n), Abs(d))
    IN  <<(s * n) \div g, (s * d) \div g>>

RInt(n) == <<n, 1>>

RAdd(a, b) == Rat(a[1] * b[2] + b[1] * a[2], a[2] * b[2])

RSub(a, b) == Rat(a[1] * b[2] - b[1] * a[2], a[2] * b[2])

\* a / b, for b # 0
RDiv(a, b) == Rat(a[1] * b[2], a[2] * b[1])

RLe(a, b) == a[1] * b[2] <= b[1] * a[2]

RLt(a, b) == a[1] * b[2] < b[1] * a[2]

RGe(a, b) == RLe(b, a)

RGt(a, b) == RLt(b, a)

RZero == <<0, 1>>

RECURSIVE RSum(_)
RSum(s) == IF s = <<>> THEN RZero ELSE RAdd(Head(s), RSum(Tail(s)))

\* sum(vals) / len(vals), for a non-empty list of rationals
Mean(vals) == RDiv(RSum(vals), RInt(Len(vals)))

(***************************************************************************)
(* Python list helpers.                                                    *)
(***************************************************************************)
\* Python's normalisation of a slice bound against a list of length n
SliceBound(x, n) == IF x < 0 THEN Max(x + n, 0) ELSE Min(x, n)

\* s[a:b]
PySlice(s, a, b) ==
    LET lo == SliceBound(a, Len(s))
        hi == SliceBound(b, Len(s))
    IN  IF hi <= lo THEN <<>> ELSE SubSeq(s, lo + 1, hi)

\* [v for v in s if v is not None]
NotNone(s) == SelectSeq(s, LAMBDA v : v # None)

Range(s) == {s[i] : i \in DOMAIN s}

\* sorted(S) for a set of integers
RECURSIVE Sorted(_)
Sorted(S) ==
    IF S = {} THEN <<>>
    ELSE LET m == CHOOSE x \in S : \A y \in S : x <= y
         IN  <<m>> \o Sorted(S \ {m})

\* d.get(k) on a dict modelled as a function
Get(d, k) == IF k \in DOMAIN d THEN d[k] ELSE None

\* d.get(k, default)
GetOr(d, k, default) == IF k \in DOMAIN d THEN d[k] ELSE default

(***************************************************************************)
(* Severity classifier: generate_report.py, severity_from_delta.           *)
(* levels is the dict of the configuration, possibly lacking keys.         *)
(***************************************************************************)
Pct(p) == Rat(p, 100)

DefaultHigh == Pct(30)

DefaultMedium == Pct(20)

DefaultLow == Pct(10)

\* thresholds compared with > where the code has >=
severity_from_delta_Strict(pct_increase, levels) ==
    IF pct_increase = None \/ RLe(pct_increase, RZero) THEN SevNone
    ELSE IF RGt(pct_increase, GetOr(levels, "high", DefaultHigh)) THEN "high"
    ELSE IF RGt(pct_increase, GetOr(levels, "medium", DefaultMedium)) THEN "medium"
    ELSE IF RGt(pct_increase, GetOr(levels, "low", DefaultLow)) THEN "low"
    ELSE SevNone

severity_from_delta(pct_increase, levels) ==
    IF pct_increase = None \/ RLe(pct_increase, RZero) THEN SevNone
    ELSE IF RGe(pct_increase, GetOr(levels, "high", DefaultHigh)) THEN "high"
    ELSE IF RGe(pct_increase, GetOr(levels, "medium", DefaultMedium)) THEN "medium"
    ELSE IF RGe(pct_increase, GetOr(levels, "low", DefaultLow)) THEN "low"
    ELSE SevNone

(***************************************************************************)
(* db.py, fetch_runs: SELECT * FROM runs ORDER BY datetime(run_timestamp)  *)
(* DESC [LIMIT n].  Runs with equal timestamps come in an order SQLite     *)
(* does not fix, so the result is any one of the descending orders.  The   *)
(* LIMIT clause is added only for a truthy limit, and a negative LIMIT     *)
(* means no limit.                                                         *)
(***************************************************************************)
\* the orders of the run set S by descending timestamp
RECURSIVE DescendingOrders(_)
DescendingOrders(S) ==
    IF S = {} THEN {<<>>}
    ELSE UNION {{<<r>> \o t : t \in DescendingOrders(S \ {r})} :
                    r \in {r \in S : \A q \in S : runs[r] >= runs[q]}}

\* ORDER BY datetime(run_timestamp) without DESC: oldest first
RecencyOrders_OldestFirst ==
    {[i \in DOMAIN s |-> s[Len(s) + 1 - i]] : s \in DescendingOrders(DOMAIN runs)}

RecencyOrders == DescendingOrders(DOMAIN runs)

\* a limit of lookback_runs alone: the current run takes one of the places
RunsLimit_NoMargin(c) == c.lookback_runs

RunsLimit(c) == Max(c.lookback_runs, c.avg_prev_offset) + 3

fetch_runs(limit) ==
    {IF limit > 0 THEN SubSeq(s, 1, Min(limit, Len(s))) ELSE s : s \in RecencyOrders}

(***************************************************************************)
(* generate_report.py, generate_report: the pieces of one report, as       *)
(* functions of the configuration c and the fetched run list rs.           *)
(***************************************************************************)
\* runs[1:lookback_runs+1]
PrevRuns(c, rs) == PySlice(rs, 1, c.lookback_runs + 1)

PrevRunForAvg(c, rs) ==
    IF c.avg_prev_offset >= 1 /\ Len(rs) > c.avg_prev_offset
    THEN rs[c.avg_prev_offset + 1]
    ELSE IF PrevRuns(c, rs) # <<>> THEN PrevRuns(c, rs)[1]
    ELSE NoRun

\* SELECT id, name FROM hotels ORDER BY name
HotelNamesByName == Sorted({hotels[h] : h \in DOMAIN hotels})

HotelIdByName(n) == CHOOSE h \in DOMAIN hotels : hotels[h] = n

RECURSIVE AppendMissing(_, _)
AppendMissing(order, names) ==
    IF names = <<>> THEN order
    ELSE AppendMissing(
            IF Head(names) \in Range(order) THEN order ELSE Append(order, Head(names)),
            Tail(names))

HotelOrderNames(c) ==
    AppendMissing(SelectSeq(c.hotels, LAMBDA n : n \in Range(HotelNamesByName)),
                  HotelNamesByName)

HotelOrderIds(c) ==
    [i \in DOMAIN HotelOrderNames(c) |-> HotelIdByName(HotelOrderNames(c)[i])]

\* prices_by_run_hotel_date over a prices table p: the rows of p
\* WHERE run_id IN run_ids
PriceMatrixOf(p, rs) ==
    [k \in {k \in DOMAIN p : k[1] \in Range(rs)} |-> p[k]]

PriceMatrix(rs) == PriceMatrixOf(prices, rs)

\* a key without a row answered with the price another run holds for it
Cell_CarryForward(m, run, hid, date) ==
    IF <<run, hid, date>> \in DOMAIN m THEN m[<<run, hid, date>>]
    ELSE IF \E k \in DOMAIN m : k[2] = hid /\ k[3] = date
         THEN m[CHOOSE k \in DOMAIN m : k[2] = hid /\ k[3] = date]
         ELSE None

\* m.get(run, {}).get(hid, {}).get(date)
Cell(m, run, hid, date) == Get(m, <<run, hid, date>>)

\* the start bound taken as exclusive
AllDates_StrictStart(c, m) ==
    LET sorted == Sorted({k[3] : k \in DOMAIN m})
        from   == IF c.start_date # NoDate
                  THEN SelectSeq(sorted, LAMBDA d : d > c.start_date) ELSE sorted
    IN  IF c.end_date # NoDate
        THEN SelectSeq(from, LAMBDA d : d <= c.end_date) ELSE from

AllDates(c, m) ==
    LET sorted == Sorted({k[3] : k \in DOMAIN m})
        from   == IF c.start_date # NoDate
                  THEN SelectSeq(sorted, LAMBDA d : d >= c.start_date) ELSE sorted
    IN  IF c.end_date # NoDate
        THEN SelectSeq(from, LAMBDA d : d <= c.end_date) ELSE from

\* a missing price entered into the average as a zero
PresentPrices_MissingAsZero(m, run, order, date) ==
    [i \in DOMAIN order |->
        IF Cell(m, run, order[i], date) = None THEN RZero
        ELSE Cell(m, run, order[i], date)]

\* the non-missing prices of one run for one date, in hotel order
PresentPrices(m, run, order, date) ==
    NotNone([i \in DOMAIN order |-> Cell(m, run, order[i], date)])

AvgOf(vals) == IF vals # <<>> THEN Mean(vals) ELSE None

RowAvgByDate(m, cur, order, dates) ==
    [d \in Range(dates) |-> AvgOf(PresentPrices(m, cur, order, d))]

\* all_dates[max(0, i-k):i+1]: the date itself enters its own baseline
TrailingWindow_Inclusive(dates, k, i) == PySlice(dates, Max(0, i - k), i + 1)

\* all_dates[i-k:i]: a negative start counts from the end of the list
TrailingWindow_NoClamp(dates, k, i) == PySlice(dates, i - k, i)

\* the window of the date at 0-based index i of dates
TrailingWindow(dates, k, i) == PySlice(dates, Max(0, i - k), i)

\* the trailing average of the date at 0-based index i of dates
TrailingAvg(ra, dates, k, i) ==
    LET prev_dates == TrailingWindow(dates, k, i)
        prev_vals  == NotNone([j \in DOMAIN prev_dates |-> Get(ra, prev_dates[j])])
    IN  AvgOf(prev_vals)

TrailingRowAvgByDate(ra, dates, k) ==
    IF k > 0
    THEN [d \in Range(dates) |->
            TrailingAvg(ra, dates, k, (CHOOSE i \in DOMAIN dates : dates[i] = d) - 1)]
    ELSE <<>>

\* (new - old) / old when both are present and old > 0, else None
RelChange(new, old) ==
    IF old # None /\ new # None /\ RGt(old, RZero)
    THEN RDiv(RSub(new, old), old) ELSE None

\* the delta taken against the oldest of prev_runs instead of the nearest
HotelCell_OldestPrev(c, m, cur, prev_runs, hid, date) ==
    LET cur_price  == Cell(m, cur, hid, date)
        prev_price == IF prev_runs # <<>>
                      THEN Cell(m, prev_runs[Len(prev_runs)], hid, date) ELSE None
    IN  [price |-> cur_price, delta |-> RelChange(cur_price, prev_price), sev |-> SevNone]

HotelCell(c, m, cur, prev_runs, hid, date) ==
    LET cur_price  == Cell(m, cur, hid, date)
        prev_price == IF prev_runs # <<>> THEN Cell(m, prev_runs[1], hid, date) ELSE None
        delta == IF prev_runs # <<>> /\ prev_price # None /\ cur_price # None
                 THEN RelChange(cur_price, prev_price) ELSE None
    IN  [price |-> cur_price, delta |-> delta, sev |-> SevNone]

AvgCell(c, cur_avg, trailing_avg) ==
    [value |-> cur_avg,
     sev   |-> severity_from_delta(RelChange(cur_avg, trailing_avg), c.levels)]

\* f"{x:.0f}" of a rational: the nearest integer, a tie going to the even one
RoundHalfEven(x) ==
    LET n == x[1]
        d == x[2]
        q == n \div d
        r == n - q * d
    IN  IF 2 * r < d THEN q
        ELSE IF 2 * r > d THEN q + 1
        ELSE IF q % 2 = 0 THEN q ELSE q + 1

\* fmt_delta: "" for a missing change, else the sign and the whole percent
fmt_delta(pct) ==
    IF pct = None THEN [sign |-> "", percent |-> None]
    ELSE [sign    |-> IF RGe(pct, RZero) THEN "+" ELSE "",
          percent |-> RoundHalfEven(Rat(pct[1] * 100, pct[2]))]

\* the sum of the present prices divided by the number of hotel columns
PrevAvg_CountAll(m, prev_run_for_avg, order, date) ==
    IF prev_run_for_avg # NoRun /\ PresentPrices(m, prev_run_for_avg, order, date) # <<>>
    THEN RDiv(RSum(PresentPrices(m, prev_run_for_avg, order, date)), RInt(Len(order)))
    ELSE None

PrevAvg(m, prev_run_for_avg, order, date) ==
    IF prev_run_for_avg # NoRun
    THEN AvgOf(PresentPrices(m, prev_run_for_avg, order, date))
    ELSE None

\* the change taken relative to the current average instead of the prior one
DeltaAvgCell_OverNew(c, cur_avg, prev_avg) ==
    LET delta == IF RelChange(cur_avg, prev_avg) # None /\ RGt(cur_avg, RZero)
                 THEN RDiv(RSub(cur_avg, prev_avg), cur_avg) ELSE None
    IN  [value |-> delta, text |-> fmt_delta(delta),
         sev   |-> severity_from_delta(delta, c.levels)]

DeltaAvgCell(c, cur_avg, prev_avg) ==
    [value |-> RelChange(cur_avg, prev_avg),
     text  |-> fmt_delta(RelChange(cur_avg, prev_avg)),
     sev   |-> severity_from_delta(RelChange(cur_avg, prev_avg), c.levels)]

Row(c, m, rs, order, ra, tr, date) ==
    [cells |-> [i \in DOMAIN order |->
                    HotelCell(c, m, rs[1], PrevRuns(c, rs), order[i], date)],
     avg   |-> AvgCell(c, Get(ra, date), Get(tr, date)),
     dav   |-> DeltaAvgCell(c, Get(ra, date),
                            PrevAvg(m, PrevRunForAvg(c, rs), order, date))]

NoReport ==
    [status |-> "none", fetched |-> <<>>, current_run |-> NoRun, prev_runs |-> <<>>,
     prev_run_for_avg |-> NoRun, hotel_order |-> <<>>, all_dates |-> <<>>,
     matrix |-> <<>>, row_avg |-> <<>>, trailing |-> <<>>, rows |-> <<>>]

\* the report of configuration c and run list rs over a prices table p
BuildReportOn(p, c, rs) ==
    LET m     == PriceMatrixOf(p, rs)
        order == HotelOrderIds(c)
        dates == AllDates(c, m)
        ra    == RowAvgByDate(m, rs[1], order, dates)
        tr    == TrailingRowAvgByDate(ra, dates, c.lookback_days_avg)
    IN  [status |-> "ok", fetched |-> rs, current_run |-> rs[1],
         prev_runs |-> PrevRuns(c, rs),
         prev_run_for_avg |-> PrevRunForAvg(c, rs),
         hotel_order |-> order, all_dates |-> dates,
         matrix |-> m, row_avg |-> ra, trailing |-> tr,
         rows |-> [d \in Range(dates) |-> Row(c, m, rs, order, ra, tr, d)]]

BuildReport(c, rs) == BuildReportOn(prices, c, rs)

\* One run of generate_report under configuration c.  An empty run list
\* raises RuntimeError("No runs found in DB. Ingest data first.") before
\* anything is rendered: the NoRunsError of the specification.
GenerateReport(c) ==
    /\ \E rs \in fetch_runs(RunsLimit(c)) :
          report' = IF rs = <<>>
                    THEN [NoReport EXCEPT !.status = "NoRunsError"]
                    ELSE BuildReport(c, rs)
    /\ cfg' = c
    /\ UNCHANGED <<runs, nextRunId, hotels, prices, cls, price_rows, nextPriceId,
                   run_dates, ioVars>>

(***************************************************************************)
(* The observation store: db.py.  Run ids are AUTOINCREMENT, so an id is   *)
(* never reused.  report holds the outcome of generate_report for the      *)
(* store as it is; an operation that writes the store drops it.            *)
(*                                                                         *)
(* price_rows is the prices table, a set of rows with AUTOINCREMENT ids;   *)
(* prices is what a SELECT of the table gives once it is keyed by          *)
(* (run_id, hotel_id, stay_date).                                          *)
(***************************************************************************)
KeyOf(row) == <<row.run_id, row.hotel_id, row.stay_date>>

\* the rows of a table keyed by (run_id, hotel_id, stay_date)
StoredView(rows) ==
    [k \in {KeyOf(r) : r \in rows} |-> (CHOOSE r \in rows : KeyOf(r) = k).price]

\* ingest order: run by run, date by date, hotel by hotel
KeyBefore(a, b) ==
    \/ a[1] < b[1]
    \/ a[1] = b[1] /\ a[3] < b[3]
    \/ a[1] = b[1] /\ a[3] = b[3] /\ a[2] < b[2]

\* the table that holds the observations p, its rows inserted in ingest order
TableOf(p) ==
    {[id |-> Cardinality({j \in DOMAIN p : KeyBefore(j, k)}) + 1,
      run_id |-> k[1], hotel_id |-> k[2], stay_date |-> k[3], price |-> p[k]] :
        k \in DOMAIN p}

\* INSERT INTO prices without conflict resolution on a table without the
\* UNIQUE constraint
InsertOrReplace_PlainInsert(rows, id, run_id, hotel_id, stay_date, price) ==
    rows \cup {[id |-> id, run_id |-> run_id, hotel_id |-> hotel_id,
                stay_date |-> stay_date, price |-> price]}

\* INSERT OR REPLACE INTO prices: the rows that conflict on
\* UNIQUE(run_id, hotel_id, stay_date) are deleted, then the row is inserted
InsertOrReplace(rows, id, run_id, hotel_id, stay_date, price) ==
    {r \in rows : KeyOf(r) # <<run_id, hotel_id, stay_date>>}
    \cup {[id |-> id, run_id |-> run_id, hotel_id |-> hotel_id,
           stay_date |-> stay_date, price |-> price]}

\* no CSV read, no CSV written, no fetch batch started
NoCsv ==
    [status |-> "none", run_id |-> NoRun, header |-> <<>>, rows |-> <<>>,
     start |-> NoDate, end |-> NoDate]

NoExport == [status |-> "none", run_id |-> NoRun, header |-> <<>>, rows |-> <<>>]

NoBatch ==
    [status |-> "none", run_id |-> NoRun, tasks |-> <<>>, outcome |-> <<>>,
     completed |-> {}, processed_tasks |-> 0, per_date_counts |-> <<>>,
     dates_done |-> 0, printed |-> <<>>,
     in_txn |-> FALSE, rows |-> {}, next_id |-> 0]

Idle == csv_file = NoCsv /\ export_file = NoExport /\ batch = NoBatch

DefaultLevels == [k \in {"low", "medium", "high"} |->
                    IF k = "low" THEN DefaultLow
                    ELSE IF k = "medium" THEN DefaultMedium ELSE DefaultHigh]

NoConfig ==
    [start_date |-> NoDate, end_date |-> NoDate, lookback_runs |-> 3,
     lookback_days_avg |-> 5, avg_prev_offset |-> 1,
     levels |-> DefaultLevels, hotels |-> <<>>]

NoCall == [pct |-> None, levels |-> DefaultLevels, sev |-> SevNone]

\* the database after init_db: three empty tables
Init ==
    /\ runs = <<>>
    /\ nextRunId = 1
    /\ hotels = <<>>
    /\ prices = <<>>
    /\ cfg = NoConfig
    /\ report = NoReport
    /\ cls = NoCall
    /\ price_rows = {}
    /\ nextPriceId = 1
    /\ run_dates = [r \in DOMAIN runs |-> <<NoDate, NoDate>>]
    /\ Idle

\* create_run with timestamp ts: INSERT INTO runs, commit
create_run(ts) ==
    /\ nextRunId <= MaxRuns
    /\ runs' = [r \in DOMAIN runs \cup {nextRunId} |->
                    IF r = nextRunId THEN ts ELSE runs[r]]
    /\ nextRunId' = nextRunId + 1
    /\ report' = NoReport
    /\ run_dates' = [r \in DOMAIN runs' |->
                        IF r = nextRunId THEN <<NoDate, NoDate>> ELSE run_dates[r]]
    /\ UNCHANGED <<hotels, prices, cfg, cls, price_rows, nextPriceId, ioVars>>

\* what delete_run returns: the rowcount of each of its two DELETEs
delete_run_returns(rows, rs, run_id) ==
    <<Cardinality({r \in rows : r.run_id = run_id}),
      Cardinality({r \in DOMAIN rs : r = run_id})>>

\* delete_run: DELETE FROM prices WHERE run_id = ?; DELETE FROM runs WHERE id = ?
delete_run(run_id) ==
    /\ price_rows' = {r \in price_rows : r.run_id # run_id}
    /\ prices' = [k \in {k \in DOMAIN prices : k[1] # run_id} |-> prices[k]]
    /\ runs' = [r \in DOMAIN runs \ {run_id} |-> runs[r]]
    /\ report' = NoReport
    /\ run_dates' = [r \in DOMAIN runs' |-> run_dates[r]]
    /\ UNCHANGED <<nextRunId, hotels, cfg, cls, nextPriceId, ioVars>>

\* upsert_price: one INSERT OR REPLACE; the id of the row is the next
\* AUTOINCREMENT value
upsert_price(run_id, hotel_id, stay_date, price) ==
    /\ price_rows' = InsertOrReplace(price_rows, nextPriceId,
                                     run_id, hotel_id, stay_date, price)
    /\ nextPriceId' = nextPriceId + 1
    /\ prices' = StoredView(price_rows')
    /\ report' = NoReport
    /\ UNCHANGED <<runs, nextRunId, hotels, cfg, cls, run_dates, ioVars>>

\* the configurations of the run selection: window, thresholds and hotels
\* are left at their defaults
RunConfigs ==
    {[NoConfig EXCEPT !.lookback_runs = lb, !.avg_prev_offset = off] :
        lb \in -1..MaxLookbackRuns, off \in -1..MaxOffset}

CreateRun == \E ts \in 1..MaxTs : create_run(ts)

DeleteRun == \E id \in 1..MaxRuns : id < nextRunId /\ delete_run(id)

\* generate_report is a one-shot script: it is run on a store that has no
\* report yet (a second run would only overwrite the first)
ReportRuns == report.status = "none" /\ \E c \in RunConfigs : GenerateReport(c)

NextRuns == CreateRun \/ DeleteRun \/ ReportRuns

SpecRuns == Init /\ [][NextRuns]_vars

(***************************************************************************)
(* Run selection.                                                          *)
(***************************************************************************)
NumRuns == Cardinality(DOMAIN runs)

\* s lists distinct stored runs, most recent first, and no stored run
\* outside s is more recent than a run of s
TopByRecency(s) ==
    /\ \A i \in DOMAIN s : s[i] \in DOMAIN runs
    /\ \A i, j \in DOMAIN s : i < j => s[i] # s[j] /\ runs[s[i]] >= runs[s[j]]
    /\ \A i \in DOMAIN s : \A r \in DOMAIN runs \ Range(s) : runs[s[i]] >= runs[r]

\* C1: a report is made for the run with the greatest timestamp of all
\* stored runs, and an empty store gives NoRunsError and no report.
C1_CurrentRunIsMostRecent ==
    /\ report.status = "ok" =>
          /\ report.current_run \in DOMAIN runs
          /\ \A r \in DOMAIN runs : runs[report.current_run] >= runs[r]
    /\ report.status = "NoRunsError" <=> (report.status # "none" /\ NumRuns = 0)
    /\ report.status = "NoRunsError" => report.rows = <<>> /\ report.current_run = NoRun

C1_Witness ==
    /\ report.status = "ok"
    /\ NumRuns >= 3
    /\ \E r \in DOMAIN runs : r > report.current_run /\ runs[r] < runs[report.current_run]

\* C2: for lookback_runs >= 0, prev_runs is the runs at recency positions
\* 1..min(lookback_runs, n-1), in recency order, without the current run.
C2_PrevRuns ==
    (report.status = "ok" /\ cfg.lookback_runs >= 0) =>
        /\ Len(report.prev_runs) = Min(cfg.lookback_runs, NumRuns - 1)
        /\ TopByRecency(<<report.current_run>> \o report.prev_runs)

C2_Witness ==
    /\ report.status = "ok"
    /\ cfg.lookback_runs = 2
    /\ NumRuns = 2
    /\ Len(report.prev_runs) = 1
    /\ runs[report.prev_runs[1]] = runs[report.current_run]

\* C3 (as claimed): prev_run_for_avg is the run at recency index
\* avg_prev_offset when that offset is >= 1 and the store has more runs than
\* the offset; otherwise it is the nearest prior run, and it is none only
\* when no prior run exists; it is never the current run.
C3_PrevRunForAvg_Claimed ==
    (report.status = "ok" /\ cfg.lookback_runs >= 0) =>
        /\ (cfg.avg_prev_offset >= 1 /\ NumRuns > cfg.avg_prev_offset) =>
              /\ report.prev_run_for_avg # NoRun
              /\ TopByRecency(SubSeq(report.fetched, 1, cfg.avg_prev_offset + 1))
              /\ report.prev_run_for_avg = report.fetched[cfg.avg_prev_offset + 1]
        /\ ~(cfg.avg_prev_offset >= 1 /\ NumRuns > cfg.avg_prev_offset) =>
              IF NumRuns >= 2
              THEN /\ report.prev_run_for_avg = report.fetched[2]
                   /\ TopByRecency(SubSeq(report.fetched, 1, 2))
              ELSE report.prev_run_for_avg = NoRun
        /\ report.prev_run_for_avg # report.current_run

(***************************************************************************)
(* The classifier on its own: one call of severity_from_delta on a change  *)
(* and a threshold dict, both drawn from small sets.                       *)
(***************************************************************************)
ChangePcts == {-50, -5, 0, 5, 10, 15, 20, 25, 30, 35}

ThresholdPcts == {5, 10, 20, 30}

Lv(l, m, h) == [k \in {"low", "medium", "high"} |->
                  IF k = "low" THEN Pct(l) ELSE IF k = "medium" THEN Pct(m) ELSE Pct(h)]

\* every full dict over ThresholdPcts, and the dicts that leave keys to the defaults
LevelDicts ==
    {Lv(l, m, h) : l \in ThresholdPcts, m \in ThresholdPcts, h \in ThresholdPcts}
    \cup {[k \in {"low"} |-> Pct(l)] : l \in ThresholdPcts}
    \cup {[k \in {"high"} |-> Pct(h)] : h \in ThresholdPcts}

\* the caller passes the size of the change, abs(delta), to the classifier
Classify_SizeOfChange ==
    /\ \E x \in {None} \cup {Pct(p) : p \in ChangePcts} : \E lv \in LevelDicts :
          cls' = [pct |-> x, levels |-> lv,
                  sev |-> severity_from_delta(IF x = None THEN None ELSE <<Abs(x[1]), x[2]>>,
                                              lv)]
    /\ UNCHANGED <<runs, nextRunId, hotels, prices, cfg, report, price_rows, nextPriceId,
                   run_dates, ioVars>>

Classify ==
    /\ \E x \in {None} \cup {Pct(p) : p \in ChangePcts} : \E lv \in LevelDicts :
          cls' = [pct |-> x, levels |-> lv, sev |-> severity_from_delta(x, lv)]
    /\ UNCHANGED <<runs, nextRunId, hotels, prices, cfg, report, price_rows, nextPriceId,
                   run_dates, ioVars>>

NextClassify == Classify

SpecClassify == Init /\ [][NextClassify]_vars

(***************************************************************************)
(* Stores for the report engine.  A store is what ingesting one CSV per    *)
(* run leaves behind: two hotels, and for each run and date one row        *)
(* pattern <<cell of hotel 1, cell of hotel 2>>, a cell being a price, a   *)
(* NULL price (None) or no row at all (NoRow).                             *)
(***************************************************************************)
NoRow == <<-1>>

TwoHotels == [h \in {1, 2} |-> IF h = 1 THEN 2 ELSE 1]

RowPatterns ==
    {<<NoRow, NoRow>>, <<RInt(100), NoRow>>, <<None, RInt(130)>>,
     <<RInt(100), RInt(130)>>, <<None, None>>, <<RInt(0), NoRow>>}

\* the prices table holding rows[run][date][hotel] wherever that is a row
PricesOf(rows) ==
    [k \in {k \in (DOMAIN rows) \X {1, 2} \X (1..NumDates) :
                k[3] \in DOMAIN rows[k[1]] /\ rows[k[1]][k[3]][k[2]] # NoRow}
        |-> rows[k[1]][k[3]][k[2]]]

\* run 2 is the current run and holds any pattern on every date; the older
\* run 1 is empty or holds a price of hotel 1 on every date
InitAvg ==
    /\ runs = <<1, 2>>
    /\ nextRunId = 3
    /\ hotels = TwoHotels
    /\ \E cur \in [1..NumDates -> RowPatterns] :
       \E old \in {[d \in 1..NumDates |-> <<NoRow, NoRow>>],
                   [d \in 1..NumDates |-> <<RInt(100), NoRow>>]} :
          prices = PricesOf(<<old, cur>>)
    /\ cfg = NoConfig
    /\ report = NoReport
    /\ cls = NoCall
    /\ price_rows = TableOf(prices)
    /\ nextPriceId = Cardinality(price_rows) + 1
    /\ run_dates = [r \in DOMAIN runs |-> <<NoDate, NoDate>>]
    /\ Idle

ReportLevels == {DefaultLevels, Lv(30, 20, 10), [k \in {"low"} |-> Pct(15)]}

Windows == {<<NoDate, NoDate>>, <<2, NoDate>>, <<NoDate, 2>>}

HotelLists == {<<>>, <<1, 9, 1>>}

AvgConfigs ==
    {[NoConfig EXCEPT !.lookback_days_avg = k, !.levels = lv,
                      !.start_date = w[1], !.end_date = w[2], !.hotels = hl] :
        k \in 0..MaxLookbackDays, lv \in ReportLevels, w \in Windows, hl \in HotelLists}

ReportAvg == report.status = "none" /\ \E c \in AvgConfigs : GenerateReport(c)

NextAvg == ReportAvg

SpecAvg == InitAvg /\ [][NextAvg]_vars

(***************************************************************************)
(* Row averages and trailing baselines.                                    *)
(***************************************************************************)
RMul(a, b) == Rat(a[1] * b[1], a[2] * b[2])

\* the sum of f[i] over the index set I
RECURSIVE SumOver(_, _)
SumOver(f, I) ==
    IF I = {} THEN RZero
    ELSE LET i == CHOOSE x \in I : TRUE IN RAdd(f[i], SumOver(f, I \ {i}))

\* a is the mean of f over the non-empty index set I
IsMeanOver(a, f, I) == a # None /\ RMul(a, RInt(Cardinality(I))) = SumOver(f, I)

ReportDates == Range(report.all_dates)

\* C4: the row average of a date is the mean of the current run's present
\* prices in the hotel columns of that row; a hotel without a row or with a
\* missing price is not counted, and with no present price the average is
\* missing, not zero.
C4_RowAverage ==
    report.status = "ok" =>
        \A d \in ReportDates :
            LET cells   == report.rows[d].cells
                price   == [i \in DOMAIN cells |-> cells[i].price]
                present == {i \in DOMAIN cells : price[i] # None}
            IN  /\ DOMAIN cells = DOMAIN report.hotel_order
                /\ \A i \in DOMAIN cells :
                      price[i] = Get(prices, <<report.current_run, report.hotel_order[i], d>>)
                /\ report.rows[d].avg.value = report.row_avg[d]
                /\ present = {} <=> report.row_avg[d] = None
                /\ present # {} => IsMeanOver(report.row_avg[d], price, present)

C4_Witness ==
    /\ report.status = "ok"
    /\ \E d \in ReportDates :
          /\ \E i \in DOMAIN report.hotel_order :
                <<report.current_run, report.hotel_order[i], d>> \notin DOMAIN prices
          /\ \E i \in DOMAIN report.hotel_order :
                report.rows[d].cells[i].price = RInt(100)
          /\ report.row_avg[d] = RInt(100)
    /\ \E d \in ReportDates :
          /\ \E i \in DOMAIN report.hotel_order :
                /\ <<report.current_run, report.hotel_order[i], d>> \in DOMAIN prices
                /\ report.rows[d].cells[i].price = None
          /\ report.row_avg[d] = None

\* the row averages with those of the dates >= d replaced by v
Masked(ra, d, v) == [x \in DOMAIN ra |-> IF x >= d THEN v ELSE ra[x]]

\* C5: the trailing average of a date is computed only from the row averages
\* of dates strictly earlier: its window holds earlier dates only, and the row
\* averages of the date itself and of later dates have no influence on it.
C5_TrailingOnlyEarlier ==
    report.status = "ok" =>
        \A i \in DOMAIN report.all_dates :
            LET d == report.all_dates[i]
                k == cfg.lookback_days_avg
            IN  /\ \A x \in Range(TrailingWindow(report.all_dates, k, i - 1)) : x < d
                /\ \A v \in {None, RInt(7777)} :
                      Get(report.trailing, d) =
                        IF k > 0
                        THEN TrailingAvg(Masked(report.row_avg, d, v), report.all_dates, k, i - 1)
                        ELSE None

C5_Witness ==
    /\ report.status = "ok"
    /\ cfg.lookback_days_avg >= 2
    /\ \E i \in DOMAIN report.all_dates :
          /\ i >= 2 /\ i < Len(report.all_dates)
          /\ report.row_avg[report.all_dates[i]] # None
          /\ report.row_avg[report.all_dates[i + 1]] # None
          /\ report.trailing[report.all_dates[i]] # None
          /\ report.trailing[report.all_dates[i]] # report.row_avg[report.all_dates[i]]

\* C6: for k = lookback_days_avg > 0 the trailing average of all_dates[i] is
\* the mean of the non-missing row averages of all_dates[max(0, i-k):i], with
\* however many dates precede, and is missing exactly when there is none.
C6_TrailingIsMeanOfSlice ==
    (report.status = "ok" /\ cfg.lookback_days_avg > 0) =>
        \A i \in DOMAIN report.all_dates :
            LET k  == cfg.lookback_days_avg
                ra == [j \in DOMAIN report.all_dates |-> report.row_avg[report.all_dates[j]]]
                J  == {j \in DOMAIN report.all_dates : j < i /\ j >= i - k /\ ra[j] # None}
                t  == report.trailing[report.all_dates[i]]
            IN  /\ J = {} <=> t = None
                /\ J # {} => IsMeanOver(t, ra, J)

C6_Witness ==
    /\ report.status = "ok"
    /\ cfg.lookback_days_avg = 2
    /\ Len(report.all_dates) = 3
    /\ report.trailing[report.all_dates[1]] = None
    /\ report.trailing[report.all_dates[2]] = RInt(100)
    /\ report.trailing[report.all_dates[3]] = RInt(115)
    /\ report.row_avg[report.all_dates[2]] = RInt(130)

(***************************************************************************)
(* Severities.                                                             *)
(***************************************************************************)
High(lv) == GetOr(lv, "high", DefaultHigh)

Medium(lv) == GetOr(lv, "medium", DefaultMedium)

Low(lv) == GetOr(lv, "low", DefaultLow)

\* C7: no severity for a change <= 0; otherwise the thresholds are tried from
\* high to low; with 10%/20%/30%: 5% none, 10% low, 25% medium, 30% high,
\* -50% none.
C7_Classifier ==
    LET x == cls.pct
        lv == cls.levels
    IN  /\ (x = None \/ RLe(x, RZero)) => cls.sev = SevNone
        /\ (x # None /\ RGt(x, RZero)) =>
              /\ cls.sev = "high" <=> RGe(x, High(lv))
              /\ cls.sev = "medium" <=> (RLt(x, High(lv)) /\ RGe(x, Medium(lv)))
              /\ cls.sev = "low" <=>
                    (RLt(x, High(lv)) /\ RLt(x, Medium(lv)) /\ RGe(x, Low(lv)))
              /\ cls.sev = SevNone <=>
                    (RLt(x, High(lv)) /\ RLt(x, Medium(lv)) /\ RLt(x, Low(lv)))
        /\ lv = Lv(10, 20, 30) =>
              /\ x = Pct(5) => cls.sev = SevNone
              /\ x = Pct(10) => cls.sev = "low"
              /\ x = Pct(25) => cls.sev = "medium"
              /\ x = Pct(30) => cls.sev = "high"
              /\ x = Pct(-50) => cls.sev = SevNone

C7_Witness == cls.levels = Lv(10, 20, 30) /\ cls.pct = Pct(10) /\ cls.sev = "low"

\* the Avg cell of date d has a defined baseline
AvgBaselineDefined(d) ==
    /\ report.row_avg[d] # None
    /\ cfg.lookback_days_avg > 0
    /\ Get(report.trailing, d) # None
    /\ RGt(Get(report.trailing, d), RZero)

\* C8 (as claimed): the Avg cell has no severity when its baseline is
\* undefined, and has one only when the row average exceeds a positive
\* trailing average by at least the low threshold.
C8_AvgSeverity_Claimed ==
    report.status = "ok" =>
        \A d \in ReportDates :
            /\ ~AvgBaselineDefined(d) => report.rows[d].avg.sev = SevNone
            /\ report.rows[d].avg.sev # SevNone =>
                  /\ AvgBaselineDefined(d)
                  /\ RGe(RDiv(RSub(report.row_avg[d], report.trailing[d]), report.trailing[d]),
                         Low(cfg.levels))

Ordered(lv) == RLt(Low(lv), Medium(lv)) /\ RLt(Medium(lv), High(lv))

\* C8 holds of every report made under ordered thresholds
C8_AvgSeverity_WhenOrdered == Ordered(cfg.levels) => C8_AvgSeverity_Claimed

\* C9 (as claimed): thresholds that are not ordered low < medium < high are
\* rejected with MisconfiguredThresholdsError; no report is classified
\* under them.
C9_MisconfiguredRejected ==
    (report.status # "none" /\ ~Ordered(cfg.levels)) =>
        report.status = "MisconfiguredThresholdsError"

(***************************************************************************)
(* Stores for the comparison between runs: up to MaxDeltaRuns runs, whose  *)
(* ids ascend or descend with their timestamps.  The CSV of a run has two  *)
(* dates; the row of date 2 is the row of date 1 with the hotels swapped.  *)
(***************************************************************************)
DeltaPatterns ==
    {<<RInt(100), RInt(200)>>, <<RInt(130), RInt(200)>>, <<None, NoRow>>,
     <<RInt(0), RInt(230)>>, <<RInt(100), NoRow>>}

TwoDates(p) == <<p, <<p[2], p[1]>>>>

InitDelta ==
    /\ \E n \in 1..MaxDeltaRuns :
          /\ runs \in {[r \in 1..n |-> r], [r \in 1..n |-> n + 1 - r]}
          /\ nextRunId = n + 1
          /\ \E pat \in [1..n -> DeltaPatterns] :
                prices = PricesOf([r \in 1..n |-> TwoDates(pat[r])])
    /\ hotels = TwoHotels
    /\ cfg = NoConfig
    /\ report = NoReport
    /\ cls = NoCall
    /\ price_rows = TableOf(prices)
    /\ nextPriceId = Cardinality(price_rows) + 1
    /\ run_dates = [r \in DOMAIN runs |-> <<NoDate, NoDate>>]
    /\ Idle

DeltaConfigs ==
    {[NoConfig EXCEPT !.lookback_runs = lb, !.avg_prev_offset = off, !.levels = lv] :
        lb \in -1..MaxLookbackRuns, off \in -1..MaxOffset, lv \in ReportLevels}

ReportDelta == report.status = "none" /\ \E c \in DeltaConfigs : GenerateReport(c)

NextDelta == ReportDelta

SpecDelta == InitDelta /\ [][NextDelta]_vars

\* C10: a hotel cell shows the delta (cur - prev) / prev exactly when
\* prev_runs is not empty, the current price and the price of the same cell
\* in prev_runs[0] are present and the prior price is > 0; a hotel cell
\* never has a severity.
C10_CellDelta ==
    report.status = "ok" =>
        \A d \in ReportDates : \A i \in DOMAIN report.hotel_order :
            LET cell == report.rows[d].cells[i]
                h    == report.hotel_order[i]
                cur  == Get(prices, <<report.current_run, h, d>>)
                prev == IF report.prev_runs # <<>>
                        THEN Get(prices, <<report.prev_runs[1], h, d>>) ELSE None
            IN  /\ cell.delta # None <=>
                      /\ report.prev_runs # <<>>
                      /\ cur # None
                      /\ prev # None
                      /\ RGt(prev, RZero)
                /\ cell.delta # None => RMul(cell.delta, prev) = RSub(cur, prev)
                /\ cell.sev = SevNone
                /\ report.rows[d].avg.sev \in {SevNone, "low", "medium", "high"}
                /\ report.rows[d].dav.sev \in {SevNone, "low", "medium", "high"}

C10_Witness ==
    /\ report.status = "ok"
    /\ Len(report.prev_runs) >= 2
    /\ \E d \in ReportDates : \E i \in DOMAIN report.hotel_order :
          /\ report.rows[d].cells[i].delta # None
          /\ RLt(report.rows[d].cells[i].delta, RZero)
    /\ \E d \in ReportDates : \E i \in DOMAIN report.hotel_order :
          /\ report.rows[d].cells[i].price # None
          /\ Get(prices, <<report.prev_runs[1], report.hotel_order[i], d>>) = RZero
          /\ report.rows[d].cells[i].delta = None

(***************************************************************************)
(* The "Delta Avg vs prev" cell.                                           *)
(***************************************************************************)
\* the hotel columns in which run holds a present price for date d
PresentColumns(run, d) ==
    {i \in DOMAIN report.hotel_order :
        Get(prices, <<run, report.hotel_order[i], d>>) # None}

\* the mean of the present prices of run for date d (PresentColumns not empty)
MeanOfRun(run, d) ==
    RDiv(SumOver([i \in DOMAIN report.hotel_order |->
                     Get(prices, <<run, report.hotel_order[i], d>>)],
                 PresentColumns(run, d)),
         RInt(Cardinality(PresentColumns(run, d))))

NoPriorAvg(d) ==
    \/ report.prev_run_for_avg = NoRun
    \/ PresentColumns(report.prev_run_for_avg, d) = {}

InitIndep ==
    /\ runs = <<1, 2>>
    /\ nextRunId = 3
    /\ hotels = TwoHotels
    /\ \E cur \in [1..NumDates -> {<<NoRow, NoRow>>, <<RInt(100), NoRow>>, <<RInt(130), NoRow>>}] :
       \E old \in [1..NumDates -> {<<NoRow, NoRow>>, <<RInt(100), NoRow>>}] :
          prices = PricesOf(<<old, cur>>)
    /\ cfg = NoConfig
    /\ report = NoReport
    /\ cls = NoCall
    /\ price_rows = TableOf(prices)
    /\ nextPriceId = Cardinality(price_rows) + 1
    /\ run_dates = [r \in DOMAIN runs |-> <<NoDate, NoDate>>]
    /\ Idle

IndepConfigs ==
    {[NoConfig EXCEPT !.lookback_days_avg = k] : k \in 1..MaxLookbackDays}

ReportIndep == report.status = "none" /\ \E c \in IndepConfigs : GenerateReport(c)

NextIndep == ReportIndep

SpecIndep == InitIndep /\ [][NextIndep]_vars

ObservationKeys == (DOMAIN runs) \X (DOMAIN hotels) \X (1..NumDates)

ObservationValues == {NoRow, None, RInt(100), RInt(130)}

\* the prices table p with the observation of key k set to v (NoRow: no row)
WithObservation(p, k, v) ==
    IF v = NoRow
    THEN [x \in (DOMAIN p) \ {k} |-> p[x]]
    ELSE [x \in (DOMAIN p) \cup {k} |-> IF x = k THEN v ELSE p[x]]

\* the report of the same configuration and runs with observation k set to v
ReportWith(k, v) == BuildReportOn(WithObservation(prices, k, v), cfg, report.fetched)

\* changing an observation of a run other than the current run changes the
\* Avg-cell severity of no date
AvgSeverityIgnoresOtherRuns ==
    report.status = "ok" =>
        \A k \in ObservationKeys : \A v \in ObservationValues :
            k[1] # report.current_run =>
                LET alt == ReportWith(k, v)
                IN  \A d \in ReportDates \cap Range(alt.all_dates) :
                        alt.rows[d].avg.sev = report.rows[d].avg.sev

\* changing an observation of another date changes the "Delta Avg vs prev"
\* severity of no date
DeltaAvgSeverityIgnoresOtherDates ==
    report.status = "ok" =>
        \A k \in ObservationKeys : \A v \in ObservationValues :
            LET alt == ReportWith(k, v)
            IN  \A d \in ReportDates \cap Range(alt.all_dates) :
                    d # k[3] => alt.rows[d].dav.sev = report.rows[d].dav.sev

\* C12 (as claimed): the two severities of a row come from independent
\* baselines: changing any observation of a run other than the current run
\* never changes the Avg-cell severity of any date, and changing
\* observations of other dates never changes the "Delta Avg vs prev"
\* severity of a date.
C12_IndependentBaselines_Claimed ==
    AvgSeverityIgnoresOtherRuns /\ DeltaAvgSeverityIgnoresOtherDates

\* the Avg-cell severities do not change when an observation of another run
\* changes its price and the dates with a row stay the same
AvgSeverityIgnoresOtherPrices ==
    report.status = "ok" =>
        \A k \in ObservationKeys : \A v \in ObservationValues :
            (k[1] # report.current_run /\ k \in DOMAIN prices /\ v # NoRow) =>
                LET alt == ReportWith(k, v)
                IN  \A d \in ReportDates : alt.rows[d].avg.sev = report.rows[d].avg.sev

(***************************************************************************)
(* The rows of the report.                                                 *)
(***************************************************************************)
\* the dates for which a run considered by the report holds an observation
ObservedDates == {k[3] : k \in {k \in DOMAIN prices : k[1] \in Range(report.fetched)}}

\* date d is within the configured start/end bounds; an unset bound does
\* not restrict
InWindow(d) ==
    /\ cfg.start_date = NoDate \/ d >= cfg.start_date
    /\ cfg.end_date = NoDate \/ d <= cfg.end_date

\* C13: the report has exactly one row per date of the reporting range, the
\* range being the dates observed by the runs of the report that lie within
\* the configured start/end bounds (an unset bound does not restrict); the
\* rows are in strictly ascending date order, without duplicates.
C13_OneRowPerDate ==
    report.status = "ok" =>
        /\ ReportDates = {d \in ObservedDates : InWindow(d)}
        /\ DOMAIN report.rows = ReportDates
        /\ \A i, j \in DOMAIN report.all_dates :
              i < j => report.all_dates[i] < report.all_dates[j]

C13_Witness ==
    /\ report.status = "ok"
    /\ cfg.start_date = 2
    /\ ObservedDates = 1..NumDates
    /\ report.all_dates = [i \in 1..(NumDates - 1) |-> i + 1]
    /\ \E k \in DOMAIN prices : k[1] # report.current_run /\ k[3] = 2
    /\ \A k \in DOMAIN prices : k[1] = report.current_run => k[3] # 2

\* the most recent run of the store
LatestRun == CHOOSE r \in DOMAIN runs : \A q \in DOMAIN runs : runs[q] <= runs[r]

\* C14: when a run exists and the current run has no observation in the
\* reporting window, generate_report does not fail: every hotel cell, the
\* Avg cell and the delta cell of every row are missing, without severity.
C14_EmptyCurrentRun ==
    (/\ report.status # "none"
     /\ NumRuns >= 1
     /\ \A k \in DOMAIN prices : k[1] = LatestRun => ~InWindow(k[3])) =>
        /\ report.status = "ok"
        /\ report.current_run = LatestRun
        /\ \A d \in ReportDates :
              /\ \A i \in DOMAIN report.hotel_order :
                    /\ report.rows[d].cells[i].price = None
                    /\ report.rows[d].cells[i].delta = None
                    /\ report.rows[d].cells[i].sev = SevNone
              /\ report.rows[d].avg = [value |-> None, sev |-> SevNone]
              /\ report.rows[d].dav.value = None
              /\ report.rows[d].dav.text = fmt_delta(None)
              /\ report.rows[d].dav.sev = SevNone

C14_Witness ==
    /\ report.status = "ok"
    /\ \A k \in DOMAIN prices : k[1] = report.current_run => ~InWindow(k[3])
    /\ \E k \in DOMAIN prices : k[1] = report.current_run
    /\ Len(report.all_dates) >= 2
    /\ \A d \in ReportDates :
          \E k \in DOMAIN prices :
              k[1] = report.prev_run_for_avg /\ k[3] = d /\ prices[k] = RInt(100)
    /\ \A d \in ReportDates : report.rows[d].avg.value = None

(***************************************************************************)
(* End to end: two runs, one date.                                         *)
(***************************************************************************)
\* the store holds exactly the runs R1 and the more recent R2, with
\* A = 100, B = 200 in R1 and A = 130, B = 200 in R2 on date 1 (A is hotel
\* 1, B hotel 2); the configuration has avg_prev_offset = 1 and the
\* thresholds 10% / 20% / 30%
ExampleTwoRuns ==
    /\ NumRuns = 2
    /\ \E R1 \in DOMAIN runs :
          /\ R1 # LatestRun
          /\ Get(prices, <<R1, 1, 1>>) = RInt(100)
          /\ Get(prices, <<R1, 2, 1>>) = RInt(200)
    /\ Get(prices, <<LatestRun, 1, 1>>) = RInt(130)
    /\ Get(prices, <<LatestRun, 2, 1>>) = RInt(200)
    /\ cfg.avg_prev_offset = 1
    /\ cfg.levels = Lv(10, 20, 30)

\* C15: in the example the report is that of R2; its row of the date has
\* Avg 165 and a "Delta Avg vs prev" of +10% against the average 150 of R1,
\* classified low.
C15_EndToEnd ==
    (report.status # "none" /\ ExampleTwoRuns) =>
        /\ report.status = "ok"
        /\ report.current_run = LatestRun
        /\ report.prev_run_for_avg \in DOMAIN runs \ {LatestRun}
        /\ report.rows[1].avg.value = RInt(165)
        /\ PrevAvg(PriceMatrix(report.fetched), report.prev_run_for_avg,
                   report.hotel_order, 1) = RInt(150)
        /\ report.rows[1].dav.value = Pct(10)
        /\ report.rows[1].dav.text = [sign |-> "+", percent |-> 10]
        /\ report.rows[1].dav.sev = "low"

C15_Witness ==
    /\ report.status = "ok"
    /\ ExampleTwoRuns
    /\ report.rows[1].dav.text = [sign |-> "+", percent |-> 10]
    /\ report.rows[1].dav.sev = "low"

(***************************************************************************)
(* The prices table under upsert_price and delete_run, and the price       *)
(* matrix generate_report builds from its rows.  The store has three runs  *)
(* and two hotels; observations are written for date 1.                    *)
(***************************************************************************)
InitStore ==
    /\ runs = <<1, 2, 3>>
    /\ nextRunId = 4
    /\ hotels = TwoHotels
    /\ prices = <<>>
    /\ cfg = NoConfig
    /\ report = NoReport
    /\ cls = NoCall
    /\ price_rows = {}
    /\ nextPriceId = 1
    /\ run_dates = [r \in DOMAIN runs |-> <<NoDate, NoDate>>]
    /\ Idle

StorePrices == {None, RInt(100), RInt(130)}

UpsertPrice ==
    /\ nextPriceId <= MaxPriceRows
    /\ \E run_id \in 1..3 : \E hotel_id \in DOMAIN hotels : \E price \in StorePrices :
          upsert_price(run_id, hotel_id, 1, price)

\* the id of any run of the store may be asked for, stored or deleted
DeleteStoredRun == \E run_id \in 1..3 : delete_run(run_id)

\* the sequences that list the rows of S once each: the orders in which a
\* SELECT without ORDER BY may return them
RECURSIVE RowOrders(_)
RowOrders(S) ==
    IF S = {} THEN {<<>>}
    ELSE UNION {{<<r>> \o t : t \in RowOrders(S \ {r})} : r \in S}

\* a NULL price entered into the matrix as 0
RECURSIVE MatrixOfRows_NullAsZero(_)
MatrixOfRows_NullAsZero(rows) ==
    IF rows = <<>> THEN <<>>
    ELSE LET m == MatrixOfRows_NullAsZero(SubSeq(rows, 1, Len(rows) - 1))
             r == rows[Len(rows)]
         IN  [k \in (DOMAIN m) \cup {KeyOf(r)} |->
                 IF k = KeyOf(r) THEN (IF r.price = None THEN RZero ELSE r.price)
                 ELSE m[k]]

\* for r in prices_rows: prices_by_run_hotel_date[run][hotel][date] = price
RECURSIVE MatrixOfRows(_)
MatrixOfRows(rows) ==
    IF rows = <<>> THEN <<>>
    ELSE LET m == MatrixOfRows(SubSeq(rows, 1, Len(rows) - 1))
             r == rows[Len(rows)]
         IN  [k \in (DOMAIN m) \cup {KeyOf(r)} |-> IF k = KeyOf(r) THEN r.price ELSE m[k]]

\* generate_report on the table: the rows of the fetched runs arrive in any
\* order and are folded into the matrix
GenerateReportFromTable(c) ==
    /\ \E rs \in fetch_runs(RunsLimit(c)) :
       \E rows \in RowOrders({r \in price_rows : r.run_id \in Range(rs)}) :
          report' = IF rs = <<>>
                    THEN [NoReport EXCEPT !.status = "NoRunsError"]
                    ELSE BuildReportOn(MatrixOfRows(rows), c, rs)
    /\ cfg' = c
    /\ UNCHANGED <<runs, nextRunId, hotels, prices, cls, price_rows, nextPriceId,
                   run_dates, ioVars>>

\* the default configuration, and one that fetches the two latest runs only
StoreConfigs ==
    {NoConfig, [NoConfig EXCEPT !.lookback_runs = -1, !.avg_prev_offset = -1]}

ReportStore == report.status = "none" /\ \E c \in StoreConfigs : GenerateReportFromTable(c)

NextStore == UpsertPrice \/ DeleteStoredRun \/ ReportStore

SpecStore == InitStore /\ [][NextStore]_vars

RowsOfKey(rows, k) == {r \in rows : KeyOf(r) = k}

\* C16: after any sequence of upsert_price and delete_run the table holds
\* at most one row per (run_id, hotel_id, stay_date), and an upsert leaves
\* exactly one row for its key, carrying the price just written, whatever
\* the key held before (a missing price replaces a present one).
C16_OneObservationPerKey ==
    [][/\ \A r1, r2 \in price_rows' : KeyOf(r1) = KeyOf(r2) => r1 = r2
       /\ \A run_id \in 1..3 : \A hotel_id \in DOMAIN hotels : \A price \in StorePrices :
             upsert_price(run_id, hotel_id, 1, price) =>
                 /\ Cardinality(RowsOfKey(price_rows', <<run_id, hotel_id, 1>>)) = 1
                 /\ \A r \in RowsOfKey(price_rows', <<run_id, hotel_id, 1>>) :
                       r.price = price
                 /\ \A r \in price_rows' :
                       KeyOf(r) # <<run_id, hotel_id, 1>> => r \in price_rows]_vars

\* one key upserted twice and no run deleted: the row of the first upsert
\* is gone, the row of the second holds a missing price
C16_Witness ==
    /\ NumRuns = 3
    /\ nextPriceId = 3
    /\ \E r \in price_rows : price_rows = {r} /\ r.id = 2 /\ r.price = None

\* C17: the price matrix of a report maps each (run_id, hotel_id, stay_date)
\* of the fetched runs to exactly the price stored for it, in whatever
\* order the rows arrive; a key without a row and a key with a missing
\* price both read as None and are left out of the prices an average counts.
C17_PriceMatrix ==
    report.status = "ok" =>
        LET considered == {r \in price_rows : r.run_id \in Range(report.fetched)}
        IN  /\ DOMAIN report.matrix = {KeyOf(r) : r \in considered}
            /\ \A r \in considered : report.matrix[KeyOf(r)] = r.price
            /\ \A run \in Range(report.fetched) : \A d \in {1} :
                  LET present == {h \in DOMAIN hotels :
                                    \E r \in price_rows :
                                        KeyOf(r) = <<run, h, d>> /\ r.price # None}
                  IN  /\ \A h \in DOMAIN hotels :
                            h \notin present <=> Cell(report.matrix, run, h, d) = None
                      /\ Len(PresentPrices(report.matrix, run, report.hotel_order, d))
                            = Cardinality(present)
                      /\ present = {} <=>
                            AvgOf(PresentPrices(report.matrix, run, report.hotel_order, d)) = None
            /\ \A d \in ReportDates : \A i \in DOMAIN report.hotel_order :
                  report.rows[d].cells[i].price
                      = Get(report.matrix, <<report.current_run, report.hotel_order[i], d>>)

C17_Witness ==
    /\ report.status = "ok"
    /\ Len(report.fetched) = 2
    /\ \E r1, r2 \in price_rows :
          /\ r1.id > r2.id
          /\ r1.run_id = report.current_run /\ r1.hotel_id = 1 /\ r1.price = None
          /\ r2.run_id = report.fetched[2] /\ r2.hotel_id = 2 /\ r2.price = RInt(130)
    /\ <<report.current_run, 2, 1>> \notin DOMAIN report.matrix
    /\ report.row_avg[1] = None

(***************************************************************************)
(* The order of the hotel columns.                                         *)
(***************************************************************************)
\* the names of the hotel columns of the report, in column order
ColumnNames == [i \in DOMAIN report.hotel_order |-> hotels[report.hotel_order[i]]]

StoreHotelNames == {hotels[h] : h \in DOMAIN hotels}

\* C18 (as claimed): the hotel columns are the configured hotels that exist
\* in the store, in configured order, followed by every store hotel absent
\* from the configuration in ascending name order; every store hotel
\* appears exactly once, and the order is a function of the configuration
\* and the store.
C18_HotelOrder_Claimed ==
    report.status = "ok" =>
        /\ ColumnNames =
              SelectSeq(cfg.hotels, LAMBDA n : n \in StoreHotelNames)
              \o Sorted(StoreHotelNames \ Range(cfg.hotels))
        /\ \A h \in DOMAIN hotels :
              Cardinality({i \in DOMAIN report.hotel_order : report.hotel_order[i] = h}) = 1
        /\ report.hotel_order = HotelOrderIds(cfg)

\* C18 holds of every report whose configuration names no hotel twice
C18_HotelOrder_WhenDistinct ==
    (\A i, j \in DOMAIN cfg.hotels : cfg.hotels[i] = cfg.hotels[j] => i = j)
        => C18_HotelOrder_Claimed

(***************************************************************************)
(* CSV ingestion and export: ingest_csv.py and export_csv.py.  Hotel names *)
(* are numbers, as in the hotels table of the other specifications; CSV    *)
(* cells are the strings of the file.                                      *)
(***************************************************************************)
MissingTokens == {"", "n/a", "na", "null", "none"}

\* in place of a value: the call raised an exception
Raised == <<-3>>

\* str.lower on the cells of the model
Lower(s) == IF s = "NULL" THEN "null" ELSE IF s = "N/A" THEN "n/a" ELSE s

\* float(s); a string that is no number raises ValueError
FloatOf(s) ==
    CASE s = "100" -> RInt(100)
      [] s = "100.5" -> Rat(201, 2)
      [] s = "99.9999999" -> Rat(999999999, 10000000)
      [] OTHER -> Raised

\* a missing cell ingested as a price of 0
parse_float_MissingAsZero(val) ==
    IF Lower(val) \in MissingTokens THEN RZero ELSE FloatOf(val)

parse_float(val) ==
    IF Lower(val) \in MissingTokens THEN None ELSE FloatOf(val)

\* int(v): truncation toward zero
Trunc(x) == IF x[1] >= 0 THEN x[1] \div x[2] ELSE -((-x[1]) \div x[2])

RAbs(x) == <<Abs(x[1]), x[2]>>

ExportNull == <<"null">>

ExportEpsilon == Rat(1, 1000000)

\* "null" if v is None else (int(v) if abs(v - round(v)) < 1e-6 else v)
ExportCell(v) ==
    IF v = None THEN ExportNull
    ELSE IF RLt(RAbs(RSub(v, RInt(RoundHalfEven(v)))), ExportEpsilon)
         THEN RInt(Trunc(v)) ELSE v

\* ensure_hotels, name by name: a name without a row gets the next id
RECURSIVE EnsureHotels(_, _)
EnsureHotels(hs, names) ==
    IF names = <<>> THEN hs
    ELSE EnsureHotels(IF Head(names) \in Range(hs) THEN hs ELSE Append(hs, Head(names)),
                      Tail(names))

IdOfName(hs, n) == CHOOSE h \in DOMAIN hs : hs[h] = n

\* the upserts of a list of <<hotel_id, stay_date, price>> into run_id, in order
RECURSIVE UpsertAll(_, _, _, _)
UpsertAll(rows, id, run_id, tasks) ==
    IF tasks = <<>> THEN rows
    ELSE UpsertAll(InsertOrReplace(rows, id, run_id, tasks[1][1], tasks[1][2], tasks[1][3]),
                   id + 1, run_id, Tail(tasks))

SeqMin(q) == CHOOSE x \in Range(q) : \A y \in Range(q) : x <= y

SeqMax(q) == CHOOSE x \in Range(q) : \A y \in Range(q) : x >= y

\* the cells of a CSV row, by column
CsvRowCells == {<<"100", "NULL">>, <<"", "100.5">>, <<"99.9999999", "100">>, <<"100", "abc">>}

CsvHeaders == {<<1>>, <<1, 2>>, <<2, 1>>}

\* a CSV file with its --start/--end arguments: a header of hotel names and
\* 1..MaxCsvRows rows <<date, cells>>, in any date order
CsvFiles ==
    {[status |-> "read", run_id |-> NoRun, header |-> h, rows |-> r,
      start |-> a[1], end |-> a[2]] :
        h \in CsvHeaders,
        r \in UNION {[1..n -> (1..NumDates) \X CsvRowCells] : n \in 1..MaxCsvRows},
        a \in {<<NoDate, NoDate>>, <<2, NoDate>>}}

CsvConfigs == {[NoConfig EXCEPT !.hotels = hl] : hl \in {<<>>, <<2, 1>>, <<9>>}}

\* the upserts of the loop of ingest_csv over file f, row by row and column
\* by column: <<hotel_id, stay_date, parse_float(cell)>>
IngestTasks(hs, f) ==
    LET H == Len(f.header)
    IN  [i \in 1..(Len(f.rows) * H) |->
            LET rec == f.rows[((i - 1) \div H) + 1]
                j   == ((i - 1) % H) + 1
            IN  <<IdOfName(hs, f.header[j]), rec[1], parse_float(rec[2][j])>>]

\* ingest_csv of file f under configuration c, the run stamped ts, up to
\* create_run: the hotels of the configuration and of the header are
\* ensured, the range is inferred, the run is inserted and committed
ingest_csv_begin(f, c, ts) ==
    LET hs     == EnsureHotels(EnsureHotels(hotels, c.hotels), f.header)
        dates  == [i \in DOMAIN f.rows |-> f.rows[i][1]]
        start  == IF f.start # NoDate THEN f.start ELSE SeqMin(dates)
        end    == IF f.end # NoDate THEN f.end ELSE SeqMax(dates)
        run_id == nextRunId
    IN  /\ hotels' = hs
        /\ runs' = [r \in DOMAIN runs \cup {run_id} |-> IF r = run_id THEN ts ELSE runs[r]]
        /\ run_dates' = [r \in DOMAIN runs \cup {run_id} |->
                            IF r = run_id THEN <<start, end>> ELSE run_dates[r]]
        /\ nextRunId' = nextRunId + 1
        /\ cfg' = c
        /\ csv_file' = [f EXCEPT !.status = "ingesting", !.run_id = run_id]
        /\ report' = NoReport
        /\ UNCHANGED <<prices, cls, price_rows, nextPriceId, export_file, batch>>

\* the rest of ingest_csv: the upsert loop in one transaction, committed by
\* db_session when the loop ends; a cell that is no number raises
\* ValueError out of the with-block and the connection closes uncommitted
ingest_csv_end ==
    /\ csv_file.status = "ingesting"
    /\ LET tasks == IngestTasks(hotels, csv_file)
       IN  IF \E i \in DOMAIN tasks : tasks[i][3] = Raised
           THEN /\ csv_file' = [csv_file EXCEPT !.status = "ValueError"]
                /\ UNCHANGED <<price_rows, nextPriceId, prices, report>>
           ELSE /\ price_rows' = UpsertAll(price_rows, nextPriceId, csv_file.run_id, tasks)
                /\ nextPriceId' = nextPriceId + Len(tasks)
                /\ prices' = StoredView(price_rows')
                /\ csv_file' = [csv_file EXCEPT !.status = "ingested"]
                /\ report' = NoReport
    /\ UNCHANGED <<runs, nextRunId, hotels, cfg, cls, run_dates, export_file, batch>>

\* the hotel columns of the export: config order first, then the others by name
ExportOrderNames(c) ==
    AppendMissing(SelectSeq(c.hotels, LAMBDA n : n \in Range(hotels)),
                  Sorted(Range(hotels)))

\* date_range(start, end)
date_range(start, end) == [i \in 1..(end - start + 1) |-> start + i - 1]

\* export_run_to_csv of run_id (NoRun: the latest run) under the
\* configuration in force
export_run_to_csv(run_id) ==
    \E rs \in fetch_runs(1) :
        LET run     == IF run_id = NoRun
                       THEN (IF rs = <<>> THEN NoRun ELSE rs[1])
                       ELSE (IF run_id \in DOMAIN runs THEN run_id ELSE NoRun)
            names   == ExportOrderNames(cfg)
            ids     == [j \in DOMAIN names |-> IdOfName(hotels, names[j])]
            mine    == {r \in price_rows : r.run_id = run}
            stays   == {r.stay_date : r \in mine}
            bounded == run_dates[run][1] # NoDate /\ run_dates[run][2] # NoDate
            start   == IF bounded THEN run_dates[run][1]
                       ELSE CHOOSE x \in stays : \A y \in stays : x <= y
            end     == IF bounded THEN run_dates[run][2]
                       ELSE CHOOSE x \in stays : \A y \in stays : x >= y
            dates   == date_range(start, end)
            by_hotel_date == StoredView(mine)
        IN  /\ export_file' =
                  IF run = NoRun
                  THEN [NoExport EXCEPT !.status = "NoRunError"]
                  ELSE IF ~bounded /\ stays = {}
                  THEN [NoExport EXCEPT !.status = "NoPricesError", !.run_id = run]
                  ELSE [status |-> "ok", run_id |-> run, header |-> names,
                        rows |-> [i \in DOMAIN dates |->
                            <<dates[i],
                              [j \in DOMAIN ids |->
                                  ExportCell(Get(by_hotel_date, <<run, ids[j], dates[i]>>))]>>]]
            /\ UNCHANGED <<runs, nextRunId, hotels, prices, cfg, report, cls,
                           price_rows, nextPriceId, run_dates, csv_file, batch>>

\* a fresh database
InitCsv ==
    /\ runs = <<>>
    /\ nextRunId = 1
    /\ hotels = <<>>
    /\ prices = <<>>
    /\ cfg = NoConfig
    /\ report = NoReport
    /\ cls = NoCall
    /\ price_rows = {}
    /\ nextPriceId = 1
    /\ run_dates = <<>>
    /\ Idle

IngestCsv ==
    /\ csv_file.status = "none"
    /\ \E f \in CsvFiles : \E c \in CsvConfigs : ingest_csv_begin(f, c, 1)

\* the scripts of this specification run one after the other: the export
\* starts when no ingestion is under way
ExportCsv ==
    /\ export_file.status = "none"
    /\ csv_file.status # "ingesting"
    /\ \E run_id \in {NoRun, 1} : export_run_to_csv(run_id)

NextCsv == IngestCsv \/ ingest_csv_end \/ ExportCsv

SpecCsv == InitCsv /\ [][NextCsv]_vars

\* the export is that of the run the CSV file was ingested as
RoundTrip ==
    /\ csv_file.status = "ingested"
    /\ export_file.status = "ok"
    /\ export_file.run_id \in DOMAIN runs

IngestedDates == {csv_file.rows[i][1] : i \in DOMAIN csv_file.rows}

\* the last row of the CSV file for date d
LastRowOf(d) ==
    csv_file.rows[CHOOSE i \in DOMAIN csv_file.rows :
                      /\ csv_file.rows[i][1] = d
                      /\ \A k \in DOMAIN csv_file.rows : csv_file.rows[k][1] = d => k <= i]

\* what a CSV cell reads as: the export sentinel when missing, else its number
Reading(cell) == IF Lower(cell) \in MissingTokens THEN ExportNull ELSE FloatOf(cell)

\* the export has one row per ingested date, one column per ingested hotel,
\* and in them the values of the CSV file, missing cells as "null"
SameTable ==
    /\ {export_file.rows[i][1] : i \in DOMAIN export_file.rows} = IngestedDates
    /\ Len(export_file.rows) = Cardinality(IngestedDates)
    /\ Range(export_file.header) = Range(csv_file.header)
    /\ Len(export_file.header) = Len(csv_file.header)
    /\ \A i \in DOMAIN export_file.rows : \A j \in DOMAIN export_file.header :
          \A k \in DOMAIN csv_file.header :
              csv_file.header[k] = export_file.header[j] =>
                  export_file.rows[i][2][j] = Reading(LastRowOf(export_file.rows[i][1])[2][k])

ContiguousDates ==
    /\ csv_file.start = NoDate /\ csv_file.end = NoDate
    /\ \A d \in 1..NumDates :
          (\E a, b \in IngestedDates : a <= d /\ d <= b) => d \in IngestedDates

\* every hotel of the store is a column of the CSV file
OnlyCsvHotels == Range(hotels) = Range(csv_file.header)

\* no numeric cell is within 1e-6 of an integer without being that integer
NoNearInteger ==
    \A i \in DOMAIN csv_file.rows : \A k \in DOMAIN csv_file.header :
        LET v == parse_float(csv_file.rows[i][2][k])
        IN  v # None =>
              \/ v[2] = 1
              \/ RGe(RAbs(RSub(v, RInt(RoundHalfEven(v)))), ExportEpsilon)

Pending == <<-2>>

\* what the remote API may answer to one request
Responses == {"rate", "error", "no_rates", "exception"}

\* fetch_rate: the first rate of an answer without error, None for an
\* answer with an error or without rates, and None for any exception
fetch_rate(resp) == IF resp = "rate" THEN RInt(100) ELSE None

\* daterange(start, end)
daterange(start, end) ==
    IF end - start < 0 THEN <<>> ELSE [i \in 1..(end - start + 1) |-> start + i - 1]

\* the start of run_fetch_to_db under configuration c when the clock reads
\* now: hotels ensured, the run created and committed, one task per hotel
\* entry and date submitted
StartFetch(c, now) ==
    /\ batch.status = "none"
    /\ cfg' = c
    /\ IF c.start_date = NoDate \/ c.end_date = NoDate
       THEN /\ batch' = [NoBatch EXCEPT !.status = "ValueError"]
            /\ UNCHANGED <<runs, nextRunId, hotels, run_dates, report>>
       ELSE LET hs    == EnsureHotels(hotels, c.hotels)
                dates == daterange(c.start_date, c.end_date)
                D     == Len(dates)
                tasks == [i \in 1..(Len(c.hotels) * D) |->
                            [name     |-> c.hotels[((i - 1) \div D) + 1],
                             hotel_id |-> IdOfName(hs, c.hotels[((i - 1) \div D) + 1]),
                             date     |-> dates[((i - 1) % D) + 1]]]
            IN  /\ hotels' = hs
                /\ runs' = [r \in DOMAIN runs \cup {nextRunId} |->
                               IF r = nextRunId THEN now ELSE runs[r]]
                /\ run_dates' = [r \in DOMAIN runs \cup {nextRunId} |->
                                    IF r = nextRunId THEN <<c.start_date, c.end_date>>
                                    ELSE run_dates[r]]
                /\ nextRunId' = nextRunId + 1
                /\ report' = NoReport
                /\ batch' = [status |-> "running", run_id |-> nextRunId, tasks |-> tasks,
                             outcome |-> [i \in DOMAIN tasks |-> Pending],
                             completed |-> {}, processed_tasks |-> 0,
                             per_date_counts |-> [d \in Range(dates) |-> 0],
                             dates_done |-> 0, printed |-> <<>>,
                             in_txn |-> FALSE, rows |-> {}, next_id |-> 0]
    /\ UNCHANGED <<prices, cls, price_rows, nextPriceId, csv_file, export_file>>

\* a worker thread finishes task t: the future holds what fetch_rate returned
CompleteTask(t, resp) ==
    /\ batch.status = "running"
    /\ t \in DOMAIN batch.tasks
    /\ batch.outcome[t] = Pending
    /\ batch' = [batch EXCEPT !.outcome[t] = fetch_rate(resp),
                              !.completed = @ \cup {t}]
    /\ UNCHANGED <<runs, nextRunId, hotels, prices, cfg, report, cls,
                   price_rows, nextPriceId, run_dates, csv_file, export_file>>

\* hotels_count = max(1, len(hotels)), counted over the entries of the
\* list and not over the distinct names
hotels_count_DistinctNames(c) == Max(1, Cardinality(Range(c.hotels)))

\* hotels_count = max(1, len(hotels))
hotels_count(c) == Max(1, Len(c.hotels))

\* pct = int((dates_done / total_dates) * 100) if total_dates > 0 else 100
ProgressPct(dates_done, total_dates) ==
    IF total_dates > 0 THEN Trunc(Rat(dates_done * 100, total_dates)) ELSE 100

\* the main thread takes a completed future from as_completed: fut.result()
\* raises what the worker raised, else the result is upserted and counted,
\* and the date is printed as completed when its count reaches hotels_count.
\* The upsert is not committed: the first one opens the transaction of the
\* connection on the table as stored, the later ones write to its rows.
ProcessTask(t) ==
    /\ batch.status = "running"
    /\ t \in batch.completed
    /\ IF batch.outcome[t] = Raised
       THEN batch' = [batch EXCEPT !.status = "aborted"]
       ELSE LET date  == batch.tasks[t].date
                count == batch.per_date_counts[date] + 1
                total_dates == Len(daterange(cfg.start_date, cfg.end_date))
                full  == count = hotels_count(cfg)
                base  == IF batch.in_txn THEN batch.rows ELSE price_rows
                id    == IF batch.in_txn THEN batch.next_id ELSE nextPriceId
            IN  /\ batch' = [batch EXCEPT
                                !.in_txn = TRUE,
                                !.rows = InsertOrReplace(base, id, batch.run_id,
                                                         batch.tasks[t].hotel_id, date,
                                                         batch.outcome[t]),
                                !.next_id = id + 1,
                                !.completed = @ \ {t},
                                !.processed_tasks = @ + 1,
                                !.per_date_counts[date] = count,
                                !.dates_done = IF full THEN @ + 1 ELSE @,
                                !.printed =
                                    IF full
                                    THEN Append(@, [date |-> date,
                                                    dates_done |-> batch.dates_done + 1,
                                                    total_dates |-> total_dates,
                                                    pct |-> ProgressPct(batch.dates_done + 1,
                                                                        total_dates)])
                                    ELSE @]
    /\ UNCHANGED <<runs, nextRunId, hotels, prices, cfg, report, cls,
                   price_rows, nextPriceId, run_dates, csv_file, export_file>>

\* every future has been taken: the pool shuts down, db_session commits the
\* transaction and run_fetch_to_db returns the run id
FinishFetch ==
    /\ batch.status = "running"
    /\ batch.processed_tasks = Len(batch.tasks)
    /\ batch' = [batch EXCEPT !.status = "done"]
    /\ price_rows' = IF batch.in_txn THEN batch.rows ELSE price_rows
    /\ nextPriceId' = IF batch.in_txn THEN batch.next_id ELSE nextPriceId
    /\ prices' = StoredView(price_rows')
    /\ report' = IF batch.in_txn THEN NoReport ELSE report
    /\ UNCHANGED <<runs, nextRunId, hotels, cfg, cls, run_dates, csv_file, export_file>>

\* db_session with the commit moved into its finally clause: what the
\* connection wrote is committed when an exception leaves the with-block
InterruptFetch_CommitOnExit ==
    /\ batch.status = "running"
    /\ batch' = [NoBatch EXCEPT !.status = "interrupted", !.run_id = batch.run_id]
    /\ price_rows' = IF batch.in_txn THEN batch.rows ELSE price_rows
    /\ nextPriceId' = IF batch.in_txn THEN batch.next_id ELSE nextPriceId
    /\ prices' = StoredView(price_rows')
    /\ report' = IF batch.in_txn THEN NoReport ELSE report
    /\ UNCHANGED <<runs, nextRunId, hotels, cfg, cls, run_dates, csv_file, export_file>>

\* an exception leaves the with-block of db_session in the main thread
\* (KeyboardInterrupt; sqlite3.OperationalError of an upsert): conn.close()
\* without commit rolls the transaction back, the connection is gone
InterruptFetch ==
    /\ batch.status = "running"
    /\ batch' = [NoBatch EXCEPT !.status = "interrupted", !.run_id = batch.run_id]
    /\ UNCHANGED <<runs, nextRunId, hotels, prices, cfg, report, cls,
                   price_rows, nextPriceId, run_dates, csv_file, export_file>>

\* no, one or two hotel entries; an entry may repeat a name
FetchHotelLists == {<<>>, <<1>>, <<1, 2>>, <<1, 1>>}

\* the date range is unset, empty (end before start) or 1..MaxFetchDates days
FetchConfigs ==
    {[NoConfig EXCEPT !.hotels = hl, !.start_date = w[1], !.end_date = w[2]] :
        hl \in FetchHotelLists,
        w \in {<<1, NoDate>>, <<2, 1>>} \cup {<<1, e>> : e \in 1..MaxFetchDates}}

\* the batch of this specification starts when the clock reads 1
Start == \E c \in FetchConfigs : StartFetch(c, 1)

Complete == \E t \in 1..(2 * MaxFetchDates) : \E resp \in Responses : CompleteTask(t, resp)

Process == \E t \in 1..(2 * MaxFetchDates) : ProcessTask(t)

NextFetch == Start \/ Complete \/ Process \/ FinishFetch \/ InterruptFetch

SpecFetch == InitCsv /\ [][NextFetch]_vars

\* the observations of the run of the batch
BatchRows == {r \in price_rows : r.run_id = batch.run_id}

\* the (configured hotel, date in range) pairs of the batch
BatchPairs ==
    {<<IdOfName(hotels, cfg.hotels[i]), d>> :
        i \in DOMAIN cfg.hotels, d \in Range(daterange(cfg.start_date, cfg.end_date))}

\* C20 (as claimed): whatever the order in which the fetches complete and
\* whichever of them fail, the batch does not abort, and once it is done
\* its run holds exactly one observation per (configured hotel, date in
\* range) pair, with the price of the fetch where it succeeded and a
\* missing price where it failed: the content is determined by the
\* outcomes of the fetches, not by their order.
C20_FetchBatch_Claimed ==
    /\ batch.status # "aborted"
    /\ batch.status = "done" =>
          /\ {<<r.hotel_id, r.stay_date>> : r \in BatchRows} = BatchPairs
          /\ Cardinality(BatchRows) = Cardinality(BatchPairs)
          /\ \A t \in DOMAIN batch.tasks : \A r \in BatchRows :
                (r.hotel_id = batch.tasks[t].hotel_id /\ r.stay_date = batch.tasks[t].date)
                    => r.price = batch.outcome[t]

\* C20 holds of every batch whose configuration names no hotel twice
C20_FetchBatch_WhenDistinct ==
    (\A i, j \in DOMAIN cfg.hotels : cfg.hotels[i] = cfg.hotels[j] => i = j)
        => C20_FetchBatch_Claimed

\* no exception interrupts the main thread, every fetch returns within its
\* timeout and the main thread keeps taking completed futures
NextFetchUninterrupted == Start \/ Complete \/ Process \/ FinishFetch

SpecFetchFair == InitCsv /\ [][NextFetchUninterrupted]_vars /\ WF_vars(NextFetchUninterrupted)

\* a started batch runs to completion
BatchCompletes == (batch.status = "running") ~> (batch.status = "done")

(***************************************************************************)
(* Progress of the batch: the lines printed by run_fetch_to_db.            *)
(***************************************************************************)
\* the tasks whose result the main thread has upserted
ProcessedTasks ==
    {t \in DOMAIN batch.tasks : batch.outcome[t] # Pending /\ t \notin batch.completed}

TasksOfDate(d) == {t \in DOMAIN batch.tasks : batch.tasks[t].date = d}

\* the observations of the run as the connection of the batch reads them
SessionRows ==
    {r \in (IF batch.in_txn THEN batch.rows ELSE price_rows) : r.run_id = batch.run_id}

\* the result of every task of date d has been taken and is a row of the run
DateWritten(d) ==
    /\ TasksOfDate(d) \subseteq ProcessedTasks
    /\ \A t \in TasksOfDate(d) : \E r \in SessionRows :
          r.hotel_id = batch.tasks[t].hotel_id /\ r.stay_date = d

\* how many printed lines report date d as completed
TimesPrinted(d) ==
    Cardinality({i \in DOMAIN batch.printed : batch.printed[i].date = d})

BatchDates == Range(daterange(cfg.start_date, cfg.end_date))

\* a batch that was started with at least one configured hotel
BatchWithHotels == batch.status \in {"running", "done"} /\ Len(cfg.hotels) >= 1

\* every date is printed once if all its results are written, else never;
\* the i-th line prints the count i; after the last task the count is the
\* number of dates
ProgressCounts ==
    BatchWithHotels =>
        /\ \A d \in BatchDates : TimesPrinted(d) = IF DateWritten(d) THEN 1 ELSE 0
        /\ batch.dates_done = Len(batch.printed)
        /\ \A i \in DOMAIN batch.printed :
              /\ batch.printed[i].dates_done = i
              /\ batch.printed[i].total_dates = Cardinality(BatchDates)
        /\ batch.processed_tasks = Len(batch.tasks) =>
              batch.dates_done = Cardinality(BatchDates)

\* a step of the batch never lowers the count, and a step that prints a
\* line is the step that writes the last missing result of the line's date
ProgressStep ==
    (BatchWithHotels /\ batch'.status \in {"running", "done"}) =>
        /\ batch'.dates_done >= batch.dates_done
        /\ batch'.printed # batch.printed =>
              /\ Len(batch'.printed) = Len(batch.printed) + 1
              /\ SubSeq(batch'.printed, 1, Len(batch.printed)) = batch.printed
              /\ \E d \in BatchDates :
                    /\ d = batch'.printed[Len(batch'.printed)].date
                    /\ ~DateWritten(d)
                    /\ DateWritten(d)'

\* C21: during a fetch batch with at least one configured hotel, the count
\* of completed dates never decreases, each date is reported complete
\* exactly once and only at the moment the results of all hotels for that
\* date have been written, and when the last task is processed the count
\* equals the total number of dates, for every completion order.
C21_Progress == [](ProgressCounts) /\ [][ProgressStep]_vars

\* two hotels, two dates, all four tasks processed, the second date
\* completed before the first
C21_Witness ==
    /\ BatchWithHotels
    /\ cfg.hotels = <<1, 2>>
    /\ batch.processed_tasks = 4
    /\ batch.dates_done = 2
    /\ Len(batch.printed) = 2
    /\ batch.printed[1].date = 2 /\ batch.printed[1].pct = 50
    /\ batch.printed[2].date = 1 /\ batch.printed[2].pct = 100

(***************************************************************************)
(* delete_run as a unit.                                                   *)
(***************************************************************************)
\* the step removes run_id and its rows and nothing else
DeletesAsUnit(run_id) ==
    /\ DOMAIN runs' = DOMAIN runs \ {run_id}
    /\ \A r \in DOMAIN runs' : runs'[r] = runs[r] /\ run_dates'[r] = run_dates[r]
    /\ \A r \in price_rows' : r.run_id # run_id /\ r \in price_rows
    /\ \A r \in price_rows : r.run_id # run_id => r \in price_rows'
    /\ prices' = StoredView(price_rows')
    /\ hotels' = hotels

\* the returned pair counts what the step removed
ReturnsRemoved(run_id) ==
    delete_run_returns(price_rows, runs, run_id) =
        <<Cardinality(price_rows \ price_rows'),
          Cardinality(DOMAIN runs \ DOMAIN runs')>>

\* deleting a run id that is not stored changes nothing and returns (0, 0)
AbsentRunIsNoOp(run_id) ==
    run_id \notin DOMAIN runs =>
        /\ runs' = runs /\ price_rows' = price_rows /\ prices' = prices
        /\ delete_run_returns(price_rows, runs, run_id) = <<0, 0>>

\* an observation whose run is not stored
Orphans == {r \in price_rows : r.run_id \notin DOMAIN runs}

\* C22 (as claimed): delete_run(run_id) removes the run and every
\* observation of that run as a unit and returns the numbers of observations
\* and runs removed; all other runs, their observations and all hotels are
\* left unchanged, and deleting a run id that does not exist changes nothing
\* and returns (0, 0).
C22_DeleteRun_Claimed ==
    [][\A run_id \in 1..(MaxRuns + 1) :
          delete_run(run_id) =>
              /\ DeletesAsUnit(run_id)
              /\ ReturnsRemoved(run_id)
              /\ AbsentRunIsNoOp(run_id)]_vars

\* C22 holds of every delete_run on a store in which each observation
\* belongs to a stored run
C22_DeleteRun_WhenNoOrphans ==
    [][\A run_id \in 1..(MaxRuns + 1) :
          (Orphans = {} /\ delete_run(run_id)) =>
              /\ DeletesAsUnit(run_id)
              /\ ReturnsRemoved(run_id)
              /\ AbsentRunIsNoOp(run_id)]_vars

\* what holds of every delete_run: the unit removal, the frame and the counts
C22_DeleteRun_UnitAndCounts ==
    [][\A run_id \in 1..(MaxRuns + 1) :
          delete_run(run_id) => DeletesAsUnit(run_id) /\ ReturnsRemoved(run_id)]_vars

(***************************************************************************)
(* Sessions.  One fetch or ingest session writes a store that holds no run *)
(* or one earlier run with an observation, while another session reads the *)
(* store with generate_report.  The reader sees what is committed: runs,   *)
(* hotels, price_rows and its view prices.                                 *)
(***************************************************************************)
InitSession ==
    /\ runs \in {<<>>} \cup {<<ts>> : ts \in 1..MaxTs}
    /\ nextRunId = Len(runs) + 1
    /\ hotels = TwoHotels
    /\ price_rows = {[id |-> r, run_id |-> r, hotel_id |-> 1, stay_date |-> 1,
                      price |-> RInt(100)] : r \in DOMAIN runs}
    /\ prices = StoredView(price_rows)
    /\ nextPriceId = Cardinality(price_rows) + 1
    /\ run_dates = [r \in DOMAIN runs |-> <<1, 1>>]
    /\ cfg = NoConfig
    /\ report = NoReport
    /\ cls = NoCall
    /\ Idle

\* one or two hotels, the single date 1
SessionFetchConfigs ==
    {[NoConfig EXCEPT !.hotels = hl, !.start_date = 1, !.end_date = 1] :
        hl \in {<<1>>, <<1, 2>>}}

\* a file of one row for date 1 and both hotels: a price and a missing
\* cell, or a price and a cell that is no number
SessionCsvFiles ==
    {[status |-> "read", run_id |-> NoRun, header |-> <<1, 2>>,
      rows |-> <<<<1, cells>>>>, start |-> NoDate, end |-> NoDate] :
        cells \in {<<"100", "NULL">>, <<"", "100.5">>, <<"100", "abc">>}}

NoSession == batch.status = "none" /\ csv_file.status = "none"

\* getprice_parallel.py is started; utcnow() reads any time of the clock
SessionStartFetch ==
    /\ NoSession
    /\ \E c \in SessionFetchConfigs : \E now \in 1..MaxTs : StartFetch(c, now)

\* ingest_csv.py is started, with or without --timestamp
SessionBeginIngest ==
    /\ NoSession
    /\ \E f \in SessionCsvFiles : \E ts \in 1..MaxTs :
          ingest_csv_begin(f, [NoConfig EXCEPT !.hotels = <<2, 1>>], ts)

\* the other session: generate_report under the configuration in force
ReadStore == report.status = "none" /\ GenerateReport(cfg)

NextSession ==
    \/ SessionStartFetch \/ Complete \/ Process \/ FinishFetch \/ InterruptFetch
    \/ SessionBeginIngest \/ ingest_csv_end
    \/ ReadStore

SpecSession == InitSession /\ [][NextSession]_vars

InSession == batch.status = "running" \/ csv_file.status = "ingesting"

EndedByException ==
    batch.status \in {"interrupted", "aborted"} \/ csv_file.status = "ValueError"

EndedNormally == batch.status = "done" \/ csv_file.status = "ingested"

\* the run of the session
SessionRun == IF batch.status # "none" THEN batch.run_id ELSE csv_file.run_id

\* the committed observations of a run
StoredObservations(run) == {r \in price_rows : r.run_id = run}

\* during the session and after its end by an exception the run is stored
\* and none of its observations is
RunWithoutObservations ==
    (InSession \/ EndedByException) =>
        /\ SessionRun \in DOMAIN runs
        /\ StoredObservations(SessionRun) = {}

\* a report made during the session has the run of the session as its
\* current run and no price of it
ReaderSeesLatestEmpty ==
    (InSession /\ report.status = "ok") =>
        /\ report.current_run = SessionRun
        /\ \A k \in DOMAIN report.matrix : k[1] # SessionRun

\* a report made during the session fetches the run of the session and no
\* price of it; the run is the current run if its timestamp is the latest
ReaderSeesEmpty ==
    (InSession /\ report.status = "ok") =>
        /\ SessionRun \in Range(report.fetched)
        /\ \A k \in DOMAIN report.matrix : k[1] # SessionRun
        /\ (\A q \in DOMAIN runs \ {SessionRun} : runs[q] < runs[SessionRun])
              => report.current_run = SessionRun

\* every upsert of the session has its row in the store
AllObservationsStored ==
    /\ batch.status = "done" =>
          \A t \in DOMAIN batch.tasks : \E r \in StoredObservations(batch.run_id) :
              r.hotel_id = batch.tasks[t].hotel_id /\ r.stay_date = batch.tasks[t].date
    /\ csv_file.status = "ingested" =>
          LET tasks == IngestTasks(hotels, csv_file)
          IN  \A i \in DOMAIN tasks : \E r \in StoredObservations(csv_file.run_id) :
                  r.hotel_id = tasks[i][1] /\ r.stay_date = tasks[i][2]

\* the stored observations of the run change in one step only: the normal
\* end of the session, which stores all of them
CommittedTogether ==
    \A run \in 1..(MaxRuns + 1) :
        (run = SessionRun' /\ StoredObservations(run)' # StoredObservations(run)) =>
            /\ InSession
            /\ EndedNormally'
            /\ AllObservationsStored'

SevRank(sev) ==
    CASE sev = SevNone -> 0
      [] sev = "low" -> 1
      [] sev = "medium" -> 2
      [] sev = "high" -> 3

WeaklyOrdered(lv) == RLe(Low(lv), Medium(lv)) /\ RLe(Medium(lv), High(lv))

\* the call of the state against every other change under the same dict:
\* a smaller change has no higher severity, a greater one no lower
MonotoneAtCall ==
    cls.pct # None =>
        \A p \in ChangePcts :
            LET other == SevRank(severity_from_delta(Pct(p), cls.levels))
            IN  /\ RLe(cls.pct, Pct(p)) => SevRank(cls.sev) <= other
                /\ RLe(Pct(p), cls.pct) => other <= SevRank(cls.sev)

\* severity is monotone over all the changes under the dict lv
MonotoneOver(lv) ==
    \A p, q \in ChangePcts :
        p <= q => SevRank(severity_from_delta(Pct(p), lv))
                      <= SevRank(severity_from_delta(Pct(q), lv))

\* C24 (as claimed): when the thresholds satisfy low <= medium <= high the
\* severity is monotone in the relative change, and when the thresholds are
\* not so ordered monotonicity fails.
C24_Monotone_Claimed ==
    /\ WeaklyOrdered(cls.levels) => (MonotoneAtCall /\ MonotoneOver(cls.levels))
    /\ ~WeaklyOrdered(cls.levels) => ~MonotoneOver(cls.levels)

\* C24: the severity is monotone in the relative change under every
\* threshold dict, ordered low <= medium <= high or not: for all changes
\* x <= y, severity(x) <= severity(y) in the order none < low < medium <
\* high.  What thresholds out of order break is the meaning of the levels,
\* not monotonicity: when the high threshold is below the low threshold, a
\* change that reaches the high threshold classifies as high although it is
\* below the low threshold (15% under high = 10%, low = 30%).
C24_Monotone ==
    /\ MonotoneAtCall
    /\ MonotoneOver(cls.levels)
    /\ (/\ cls.pct # None
        /\ RLt(High(cls.levels), Low(cls.levels))
        /\ RGt(cls.pct, RZero)
        /\ RGe(cls.pct, High(cls.levels))) => cls.sev = "high"

\* a 15% change under high = 10%, medium = 20%, low = 30% is high
C24_Witness ==
    /\ cls.pct = Pct(15)
    /\ cls.levels = Lv(30, 20, 10)
    /\ ~WeaklyOrdered(cls.levels)
    /\ RLt(cls.pct, Low(cls.levels))
    /\ cls.sev = "high"

====
